---- MODULE Spec2Model ----
(***************************************************************************)
(* Model of the raster clipping pipeline of mumbai-flood-assessment:       *)
(*   processor.py                 the batch script (module-level code)     *)
(*   src/data/preprocessing.py    clip_raster_with_boundary                *)
(* Pixels, arrays, paths and metadata are modelled by value; the results   *)
(* of the raster library for one input file (its metadata, and the window  *)
(* of it that the area of interest covers) are part of the input tree.     *)
(***************************************************************************)
EXTENDS Integers, Sequences, FiniteSets, TLC

\* ------------------------------------------------------------------ bounds
\* Largest finite sample value of an exhaustively drawn raster (0..MaxVal).
MaxVal == 2
\* Largest number of pixels per band of an exhaustively drawn raster.
NPix == 3

\* ------------------------------------------------------------------ values
None == [k |-> "None"]
NaN == [k |-> "nan", v |-> 0]
PosInf == [k |-> "inf", v |-> 1]
NegInf == [k |-> "inf", v |-> -1]
Fin(x) == [k |-> "fin", v |-> x]

FiniteValues == {Fin(x) : x \in 0..MaxVal}
PixelValues == FiniteValues \cup {NaN, PosInf, NegInf}
\* Declared nodata of a dataset: absent, a finite value, or NaN.
NodataValues == {None, Fin(0), NaN}

\* numpy's elementwise ==: NaN compares unequal to everything, itself included.
NpEq(a, b) == a.k # "nan" /\ b.k # "nan" /\ a = b
isinf(a) == a.k = "inf"
isnan(a) == a.k = "nan"
isfinite(a) == a.k = "fin"

\* An image is [h, w, bands]: bands is a sequence of bands, a band a sequence
\* of h*w pixels (row-major).  np.where(cond, x, out_image) keeps the shape.

\* Forward pass, first half: out_image == src.nodata -> NaN, when declared.
NodataToNaN(img, nodata) ==
    IF nodata # None
    THEN [img EXCEPT !.bands = [b \in DOMAIN img.bands |->
            [i \in DOMAIN img.bands[b] |->
                IF NpEq(img.bands[b][i], nodata) THEN NaN ELSE img.bands[b][i]]]]
    ELSE img

\* Mutation: only +inf is replaced.
InfToNaN_PositiveOnly(img) ==
    [img EXCEPT !.bands = [b \in DOMAIN img.bands |->
        [i \in DOMAIN img.bands[b] |->
            IF img.bands[b][i] = PosInf THEN NaN ELSE img.bands[b][i]]]]

\* Forward pass, second half: infinite -> NaN.
InfToNaN(img) ==
    [img EXCEPT !.bands = [b \in DOMAIN img.bands |->
        [i \in DOMAIN img.bands[b] |->
            IF isinf(img.bands[b][i]) THEN NaN ELSE img.bands[b][i]]]]

Forward(img, nodata) == InfToNaN(NodataToNaN(img, nodata))

\* Mutation: the reverse pass is left out.
Reverse_Skipped(img, nodata) == img

\* Mutation: NaN is filled with zero, whatever the declared nodata.
Reverse_ZeroFill(img, nodata) ==
    IF nodata # None
    THEN [img EXCEPT !.bands = [b \in DOMAIN img.bands |->
            [i \in DOMAIN img.bands[b] |->
                IF isnan(img.bands[b][i]) THEN Fin(0) ELSE img.bands[b][i]]]]
    ELSE img

\* Reverse pass: NaN -> src.nodata, when declared.
Reverse(img, nodata) ==
    IF nodata # None
    THEN [img EXCEPT !.bands = [b \in DOMAIN img.bands |->
            [i \in DOMAIN img.bands[b] |->
                IF isnan(img.bands[b][i]) THEN nodata ELSE img.bands[b][i]]]]
    ELSE img

\* np.ma.masked_invalid(band): the mask is TRUE where the sample is NaN or
\* infinite.
masked_invalid(band) ==
    [data |-> band, mask |-> [i \in DOMAIN band |-> ~isfinite(band[i])]]

AllMasked(m) == \A i \in DOMAIN m.mask : m.mask[i]

\* masked.compressed(): the unmasked samples, in order.
RECURSIVE Compress(_, _)
Compress(m, i) ==
    IF i > Len(m.data) THEN <<>>
    ELSE (IF m.mask[i] THEN <<>> ELSE <<m.data[i]>>) \o Compress(m, i + 1)

compressed(m) == Compress(m, 1)

\* Ascending insertion sort of a sequence of finite samples by value.
RECURSIVE Insert(_, _)
Insert(s, x) ==
    IF s = <<>> THEN <<x>>
    ELSE IF x.v <= Head(s).v THEN <<x>> \o s
    ELSE <<Head(s)>> \o Insert(Tail(s), x)

RECURSIVE Sorted(_)
Sorted(s) == IF s = <<>> THEN <<>> ELSE Insert(Sorted(Tail(s)), Head(s))

PctLow == 2
PctHigh == 98
\* Mutation: the samples are interpolated in the order of the band.
percentile_Unsorted(a, q) ==
    LET n == Len(a)
        lo == ((n - 1) * q) \div 100 + 1
        fr == ((n - 1) * q) % 100
        hi == IF lo + 1 <= n THEN lo + 1 ELSE n
    IN 100 * a[lo].v + fr * (a[hi].v - a[lo].v)

\* np.percentile(a, q) with linear interpolation, times 100 (an integer):
\* rank (n-1)*q/100 between the two neighbouring order statistics.
percentile(a, q) ==
    LET s == Sorted(a)
        n == Len(s)
        lo == ((n - 1) * q) \div 100 + 1
        fr == ((n - 1) * q) % 100
        hi == IF lo + 1 <= n THEN lo + 1 ELSE n
    IN 100 * s[lo].v + fr * (s[hi].v - s[lo].v)

\* ------------------------------------------------------------------- paths
\* A path is a sequence of components; a component is [stem, ext] with the
\* stem a sequence of tokens, so that "<stem>_plot.png" can be formed.
Dir(s) == [stem |-> <<s>>, ext |-> ""]
File(s, e) == [stem |-> <<s>>, ext |-> e]

DirNames == <<"rainfall", "census">>
input_dirs(name) == <<Dir("data"), Dir("raw"), Dir(name)>>
\* Mutation: both categories are written below one output root.
output_dirs_Shared(name) == <<Dir("data"), Dir("processed")>>

output_dirs(name) == <<Dir("data"), Dir("processed"), Dir(name)>>

Parent(p) == SubSeq(p, 1, Len(p) - 1)
Name(p) == p[Len(p)]
IsPrefix(r, p) == Len(r) <= Len(p) /\ SubSeq(p, 1, Len(r)) = r
\* Path.relative_to: defined when root is a prefix (ValueError otherwise).
relative_to(p, root) == SubSeq(p, Len(root) + 1, Len(p))
\* Path.mkdir(parents=True, exist_ok=True): the directory and its ancestors.
Ancestors(p) == {SubSeq(p, 1, n) : n \in 1..Len(p)}
PlotName(p) == [stem |-> Name(p).stem \o <<"_plot">>, ext |-> ".png"]

\* glob(input_dir/**/*.tif, recursive): every file below the root whose name
\* ends in .tif, in the order the file system lists them.
Matches(p, root) == IsPrefix(root, p) /\ Len(p) > Len(root) /\ Name(p).ext = ".tif"
Orderings(S) ==
    {s \in [1..Cardinality(S) -> S] : \A i, j \in DOMAIN s : i # j => s[i] # s[j]}

\* ---------------------------------------------------------------- datasets
WGS84 == "EPSG:4326"
UTM43N == "EPSG:32643"
\* src.crs of a raster that carries no CRS.
NoCRS == "None"
NoOverlapMsg == "Input shapes do not overlap raster."

\* What rasterio.open(path) gives: meta as src.meta, and window, the result
\* mask(src, aoi, crop=True) computes from the file (None: no overlap).
Meta(driver, dtype, nodata, w, h, count, crs) ==
    [driver |-> driver, dtype |-> dtype, nodata |-> nodata, width |-> w,
     height |-> h, count |-> count, crs |-> crs, transform |-> <<0, 0>>]
Image(h, w, bands) == [h |-> h, w |-> w, bands |-> bands]
Window(img, off) == [image |-> img, transform |-> off]
Dataset(meta, window) == [meta |-> meta, window |-> window]

\* Representative rasters of a batch.
SampleDatasets ==
    { Dataset(Meta("GTiff", "float32", Fin(0), 4, 3, 1, WGS84),
              Window(Image(2, 1, << <<Fin(0), Fin(1)>> >>), <<1, 2>>)),
      Dataset(Meta("GTiff", "float32", None, 2, 1, 1, UTM43N),
              Window(Image(1, 2, << <<NaN, NaN>> >>), <<0, 0>>)),
      Dataset(Meta("GTiff", "int16", Fin(0), 4, 4, 1, UTM43N), None),
      Dataset(Meta("GTiff", "float32", NaN, 4, 4, 1, NoCRS), None) }

\* Every single-band raster whose window has up to NPix pixels in one row.
Bands(n) == [1..n -> PixelValues]
AllDatasets ==
    { Dataset(Meta("GTiff", "float32", nd, Len(b) + 1, 2, 1, UTM43N),
              Window(Image(1, Len(b), <<b>>), <<1, 1>>)) :
        nd \in NodataValues, b \in UNION {Bands(n) : n \in 1..NPix} }

\* Every two-band raster whose window has two pixels in one row.
MultiBandDatasets ==
    { Dataset(Meta("GTiff", "float32", nd, 3, 2, 2, UTM43N),
              Window(Image(1, 2, <<b1, b2>>), <<1, 1>>)) :
        nd \in {None, Fin(0)}, b1 \in Bands(2), b2 \in Bands(2) }

RainfallTree == {<<File("prec", ".tif")>>, <<Dir("sub"), File("prec", ".tif")>>}
CensusTree == {<<File("prec", ".tif")>>}
TifPaths ==
    {input_dirs("rainfall") \o r : r \in RainfallTree}
        \cup {input_dirs("census") \o r : r \in CensusTree}
NotesPath == input_dirs("rainfall") \o <<File("notes", ".txt")>>
FocusPath == input_dirs("rainfall") \o <<Dir("sub"), File("prec", ".tif")>>

\* Relative paths whose directory and file names carry, or do not carry, the
\* words the colormap is chosen by, in either case.
PaletteTree ==
    { <<File("dem", ".tif")>>,
      <<File("elev", ".tif")>>,
      <<File("PREC", ".tif")>>,
      <<[stem |-> <<"elev", "prec">>, ext |-> ".tif"]>>,
      <<Dir("prec"), File("dem", ".tif")>>,
      <<Dir("Elev"), File("dem", ".tif")>>,
      <<Dir("elev"), File("prec", ".tif")>> }
PaletteDataset ==
    Dataset(Meta("GTiff", "float32", None, 3, 2, 1, WGS84),
            Window(Image(1, 2, << <<Fin(1), Fin(2)>> >>), <<1, 0>>))

\* Two rasters of the same name with different valid data, one in a
\* subdirectory of the other's directory.
TwinDataset ==
    Dataset(Meta("GTiff", "float32", None, 3, 2, 1, WGS84),
            Window(Image(1, 2, << <<Fin(0), Fin(0)>> >>), <<1, 0>>))
TwinWorlds ==
    {[p \in {input_dirs("rainfall") \o r : r \in RainfallTree} |->
        IF p = a THEN PaletteDataset ELSE TwinDataset] :
            a \in {input_dirs("rainfall") \o r : r \in RainfallTree}}

\* Input trees: any batch of representative rasters, or one file holding any
\* raster within the bounds, or one file of any of the names above.  A text
\* file lies beside the rasters.
BatchWorlds ==
    UNION {[S \cup {NotesPath} -> SampleDatasets \cup {None}] : S \in SUBSET TifPaths}
Worlds ==
    {w \in BatchWorlds : \A p \in DOMAIN w : (w[p] = None) <=> (p = NotesPath)}
        \cup {[p \in {FocusPath} |-> d] : d \in AllDatasets \cup MultiBandDatasets}
        \cup {[p \in {input_dirs("census") \o r} |-> PaletteDataset] : r \in PaletteTree}
        \cup TwinWorlds

VARIABLES
    inputs,           \* the input tree: path -> dataset
    dirs,             \* the directories that exist
    disk,             \* rasters opened for writing: path -> [meta, data, closed]
    plots,            \* saved preview images: path -> image
    log,              \* the printed lines
    geo,              \* the canonical AOI (line 21)
    handles,          \* open rasters and figures
    pc,
    dir_idx,          \* position of the loop of line 38
    tif_files,
    file_idx,         \* position of the loop of line 46
    tif_path,
    relative_path,
    output_path,
    src,
    geo_reprojected,
    out_image,
    out_transform,
    out_meta,
    masked_data,
    args,             \* clip_raster_with_boundary: its arguments
    boundary,         \* clip_raster_with_boundary: the boundary frame
    ret,              \* the value returned by the function called
    exc,              \* the pending exception
    data,             \* standardize_projection: the frame read
    vectors,          \* vector files written by to_file: path -> frame
    exists,           \* prepare_all_data: the scripts present in scripts/
    script_idx,       \* prepare_all_data: position of the loop of line 33
    ran               \* prepare_all_data: the scripts run, with their return codes

vars == <<inputs, dirs, disk, plots, log, geo, handles, pc, dir_idx, tif_files,
          file_idx, tif_path, relative_path, output_path, src, geo_reprojected,
          out_image, out_transform, out_meta, masked_data, args, boundary, ret, exc, data,
          vectors, exists, script_idx, ran>>

other == <<data, vectors, exists, script_idx, ran>>
world == <<inputs, geo, args, boundary, ret, other>>
locals == <<relative_path, output_path, src, geo_reprojected, out_image,
            out_transform, out_meta, masked_data>>
loop == <<dir_idx, tif_files, file_idx, tif_path>>

input_dir == input_dirs(DirNames[dir_idx])
output_dir == output_dirs(DirNames[dir_idx])

\* A printed line: its kind, the path it shows, and the file whose iteration
\* printed it.
Line(kind, what, of) == [kind |-> kind, what |-> what, of |-> of]
Exc(type, msg) == [type |-> type, msg |-> msg]
IOError == Exc("RasterioIOError", "io")
NoExc == [type |-> "", msg |-> "", scope |-> ""]

\* Lines 1-35: the AOI is built and the output roots are created.
InitProcessor ==
    /\ inputs \in Worlds
    /\ args = None
    /\ boundary = None
    /\ data = None
    /\ vectors = <<>>
    /\ exists = {}
    /\ script_idx = 1
    /\ ran = <<>>
    /\ ret = "none"
    /\ exc = NoExc
    /\ dirs = UNION {Ancestors(Parent(p)) : p \in DOMAIN inputs}
                \cup UNION {Ancestors(output_dirs(DirNames[i])) : i \in DOMAIN DirNames}
    /\ disk = <<>>
    /\ plots = <<>>
    /\ log = <<>>
    /\ geo = [geometry |-> "bbox", crs |-> WGS84]
    /\ handles = {}
    /\ pc = "dir_loop"
    /\ dir_idx = 1
    /\ tif_files = <<>>
    /\ file_idx = 1
    /\ tif_path = <<>>
    /\ relative_path = <<>>
    /\ output_path = <<>>
    /\ src = None
    /\ geo_reprojected = None
    /\ out_image = None
    /\ out_transform = <<>>
    /\ out_meta = None
    /\ masked_data = None

\* A call clip_raster_with_boundary(raster_path, boundary_path, output_path):
\* any representative raster under either driver, a boundary file with or
\* without a CRS, an output path with or without a directory part.
RasterArg == <<Dir("in"), File("dem", ".img")>>
BoundaryArg == <<Dir("in"), File("aoi", ".shp")>>
OutputArgs == {<<Dir("out"), File("clip", ".tif")>>, <<File("clip", ".tif")>>}
ClipDatasets ==
    {[d EXCEPT !.meta.driver = drv] : d \in SampleDatasets, drv \in {"GTiff", "HFA"}}
Vector(crs) == [geometry |-> "boundary", crs |-> crs]

InitClipFn ==
    /\ \E d \in ClipDatasets, crs \in {WGS84, NoCRS} :
          inputs = [q \in {RasterArg, BoundaryArg} |->
                      IF q = RasterArg THEN d ELSE Vector(crs)]
    /\ \E out \in OutputArgs :
          args = [raster_path |-> RasterArg, boundary_path |-> BoundaryArg,
                  output_path |-> out]
    /\ boundary = None
    /\ data = None
    /\ vectors = <<>>
    /\ exists = {}
    /\ script_idx = 1
    /\ ran = <<>>
    /\ ret = "none"
    /\ exc = NoExc
    /\ dirs = {<<Dir("in")>>}
    /\ disk = <<>>
    /\ plots = <<>>
    /\ log = <<>>
    /\ geo = [geometry |-> "bbox", crs |-> WGS84]
    /\ handles = {}
    /\ pc = "cf_read"
    /\ dir_idx = 1
    /\ tif_files = <<>>
    /\ file_idx = 1
    /\ tif_path = <<>>
    /\ relative_path = <<>>
    /\ output_path = <<>>
    /\ src = None
    /\ geo_reprojected = None
    /\ out_image = None
    /\ out_transform = <<>>
    /\ out_meta = None
    /\ masked_data = None

\* A call standardize_projection(input_file, output_file, target_epsg): a
\* vector file with or without a CRS, an output path with or without a
\* directory part, the default EPSG code or another.
InputFileArg == <<Dir("in"), File("wards", ".shp")>>
OutputFileArgs == {<<Dir("out"), File("wards", ".shp")>>, <<File("wards", ".shp")>>}

InitStdProj ==
    /\ \E crs \in {WGS84, NoCRS} : inputs = [q \in {InputFileArg} |-> Vector(crs)]
    /\ \E out \in OutputFileArgs, epsg \in {UTM43N, WGS84} :
          args = [input_file |-> InputFileArg, output_file |-> out, target_epsg |-> epsg]
    /\ boundary = None
    /\ data = None
    /\ vectors = <<>>
    /\ exists = {}
    /\ script_idx = 1
    /\ ran = <<>>
    /\ ret = "none"
    /\ exc = NoExc
    /\ dirs = {<<Dir("in")>>}
    /\ disk = <<>>
    /\ plots = <<>>
    /\ log = <<>>
    /\ geo = [geometry |-> "bbox", crs |-> WGS84]
    /\ handles = {}
    /\ pc = "sp_read"
    /\ dir_idx = 1
    /\ tif_files = <<>>
    /\ file_idx = 1
    /\ tif_path = <<>>
    /\ relative_path = <<>>
    /\ output_path = <<>>
    /\ src = None
    /\ geo_reprojected = None
    /\ out_image = None
    /\ out_transform = <<>>
    /\ out_meta = None
    /\ masked_data = None

\* prepare_all_data.main(): lines 24-30, the scripts in the order they are
\* run; any of them may be missing from scripts/.
scripts ==
    << "download_boundaries.py", "download_elevation.py", "prepare_census_data.py",
       "prepare_rainfall_data.py", "prepare_infrastructure_data.py" >>
\* The return codes of a script: success, failures, a kill by a signal.
ReturnCodes == {0, 1, 2, -9}

InitMain ==
    /\ exists \in SUBSET {scripts[i] : i \in DOMAIN scripts}
    /\ script_idx = 1
    /\ ran = <<>>
    /\ inputs = <<>>
    /\ args = None
    /\ boundary = None
    /\ data = None
    /\ vectors = <<>>
    /\ ret = "none"
    /\ exc = NoExc
    /\ dirs = {}
    /\ disk = <<>>
    /\ plots = <<>>
    /\ log = <<>>
    /\ geo = [geometry |-> "bbox", crs |-> WGS84]
    /\ handles = {}
    /\ pc = "pm_loop"
    /\ dir_idx = 1
    /\ tif_files = <<>>
    /\ file_idx = 1
    /\ tif_path = <<>>
    /\ relative_path = <<>>
    /\ output_path = <<>>
    /\ src = None
    /\ geo_reprojected = None
    /\ out_image = None
    /\ out_transform = <<>>
    /\ out_meta = None
    /\ masked_data = None

Init == InitProcessor \/ InitClipFn \/ InitStdProj \/ InitMain

\* ------------------------------------------------------- processor.py loop
Raster(p) == [kind |-> "raster", path |-> p]
Figure(p) == [kind |-> "figure", path |-> p]
Figures(h) == {x \in h : x.kind = "figure"}

ResetLocals ==
    /\ relative_path' = <<>>
    /\ output_path' = <<>>
    /\ src' = None
    /\ geo_reprojected' = None
    /\ out_image' = None
    /\ out_transform' = <<>>
    /\ out_meta' = None
    /\ masked_data' = None

\* An exception e raised in scope "outer" (the try of line 47), "inner" (the
\* try of line 61) or "plot" (the try of line 88) is pending.
Raise(e, scope) ==
    /\ exc' = [type |-> e.type, msg |-> e.msg, scope |-> scope]
    /\ pc' = "except"

\* Mutation: the message of a ValueError is not looked at.
Report_MessageIgnored(e, rel, path) ==
    IF e.scope = "inner" /\ e.type = "ValueError"
    THEN Line("error_processing", <<Name(rel)>>, path)
    ELSE Line("error_file", path, path)

\* Mutation: every exception is reported as a file without overlap.
Report_AllAsNoOverlap(e, rel, path) == Line("no_overlap", <<Name(rel)>>, path)

\* Mutation: every ValueError of the inner try is taken for a missing overlap.
Report_AnyValueErrorSkips(e, rel, path) ==
    IF e.scope = "inner" /\ e.type = "ValueError"
    THEN Line("no_overlap", <<Name(rel)>>, path)
    ELSE Line("error_file", path, path)

\* The line a pending exception prints: the handler of line 135 takes a
\* ValueError raised inside the inner try, the handler of line 141 the rest.
Report(e, rel, path) ==
    IF e.scope = "inner" /\ e.type = "ValueError"
    THEN IF e.msg = NoOverlapMsg
         THEN Line("no_overlap", <<Name(rel)>>, path)
         ELSE Line("error_processing", <<Name(rel)>>, path)
    ELSE Line("error_file", path, path)

\* Leaving the with block of line 81 closes the output file as it is.
CloseDest(d, h, path) ==
    IF Raster(path) \in h THEN [d EXCEPT ![path].closed = TRUE] ELSE d

\* Mutation: no handler; the exception ends the script.
ExceptFile_Uncaught ==
    /\ pc = "except"
    /\ exc.scope # "plot"
    /\ log' = Append(log, Line("traceback", tif_path, tif_path))
    /\ disk' = CloseDest(disk, handles, output_path)
    /\ handles' = {}
    /\ pc' = "done"
    /\ UNCHANGED <<world, dirs, plots, exc, loop, locals>>

\* Lines 135-142: the handlers that end a file; the with blocks have closed
\* their rasters and the loop of line 46 goes on.
ExceptFile ==
    /\ pc = "except"
    /\ exc.scope # "plot"
    /\ log' = Append(log, Report(exc, relative_path, tif_path))
    /\ disk' = CloseDest(disk, handles, output_path)
    /\ handles' = Figures(handles)
    /\ exc' = NoExc
    /\ file_idx' = file_idx + 1
    /\ pc' = "file_loop"
    /\ ResetLocals
    /\ UNCHANGED <<world, dirs, plots, dir_idx, tif_files, tif_path>>

\* Mutation: no try around the plot; the exception reaches the handlers of
\* the file.
ExceptPlot_Propagated ==
    /\ pc = "except"
    /\ exc.scope = "plot"
    /\ exc' = [exc EXCEPT !.scope = "inner"]
    /\ UNCHANGED <<world, dirs, disk, plots, log, handles, pc, loop, locals>>

\* Mutation: the handler of the plot does not call plt.close().
ExceptPlot_NoClose ==
    /\ pc = "except"
    /\ exc.scope = "plot"
    /\ log' = Append(log, Line("plot_warning", <<Name(relative_path)>>, tif_path))
    /\ exc' = NoExc
    /\ pc' = "report"
    /\ UNCHANGED <<world, dirs, disk, plots, handles, loop, locals>>

\* Mutation: after the warning of the plot the loop goes on to the next file.
ExceptPlot_EndsFile ==
    /\ pc = "except"
    /\ exc.scope = "plot"
    /\ log' = Append(log, Line("plot_warning", <<Name(relative_path)>>, tif_path))
    /\ handles' = {}
    /\ exc' = NoExc
    /\ file_idx' = file_idx + 1
    /\ pc' = "file_loop"
    /\ ResetLocals
    /\ UNCHANGED <<world, dirs, disk, plots, dir_idx, tif_files, tif_path>>

\* Lines 129-131: a warning, plt.close(), and the file goes on to line 133.
ExceptPlot ==
    /\ pc = "except"
    /\ exc.scope = "plot"
    /\ log' = Append(log, Line("plot_warning", <<Name(relative_path)>>, tif_path))
    /\ handles' = handles \ {Figure(tif_path)}
    /\ exc' = NoExc
    /\ pc' = "report"
    /\ UNCHANGED <<world, dirs, disk, plots, loop, locals>>

\* Lines 38-43: the next category is globbed.
DirLoop ==
    /\ pc = "dir_loop"
    /\ dir_idx <= Len(DirNames)
    /\ \E found \in Orderings({p \in DOMAIN inputs : Matches(p, input_dir)}) :
        /\ tif_files' = found
        /\ log' = Append(log, Line("found", input_dir, <<>>))
    /\ file_idx' = 1
    /\ pc' = "file_loop"
    /\ UNCHANGED <<world, dirs, disk, plots, handles, exc, dir_idx, tif_path, locals>>

\* Line 144, after the last category.
Summary ==
    /\ pc = "dir_loop"
    /\ dir_idx > Len(DirNames)
    /\ log' = Append(log, Line("complete", <<>>, <<>>))
    /\ pc' = "done"
    /\ UNCHANGED <<world, dirs, disk, plots, handles, exc, loop, locals>>

\* Mutation: the list of the category is walked from its end.
FileLoop_Reversed ==
    /\ pc = "file_loop"
    /\ IF file_idx <= Len(tif_files)
       THEN /\ tif_path' = tif_files[Len(tif_files) + 1 - file_idx]
            /\ pc' = "begin"
            /\ UNCHANGED dir_idx
       ELSE /\ dir_idx' = dir_idx + 1
            /\ pc' = "dir_loop"
            /\ UNCHANGED tif_path
    /\ UNCHANGED <<world, dirs, disk, plots, log, handles, exc, tif_files, file_idx,
                   locals>>

\* Mutation: the script ends after the first category.
FileLoop_FirstCategoryOnly ==
    /\ pc = "file_loop"
    /\ IF file_idx <= Len(tif_files)
       THEN /\ tif_path' = tif_files[file_idx]
            /\ pc' = "begin"
            /\ UNCHANGED dir_idx
       ELSE /\ dir_idx' = Len(DirNames) + 1
            /\ pc' = "dir_loop"
            /\ UNCHANGED tif_path
    /\ UNCHANGED <<world, dirs, disk, plots, log, handles, exc, tif_files, file_idx,
                   locals>>

\* Line 46.
FileLoop ==
    /\ pc = "file_loop"
    /\ IF file_idx <= Len(tif_files)
       THEN /\ tif_path' = tif_files[file_idx]
            /\ pc' = "begin"
            /\ UNCHANGED dir_idx
       ELSE /\ dir_idx' = dir_idx + 1
            /\ pc' = "dir_loop"
            /\ UNCHANGED tif_path
    /\ UNCHANGED <<world, dirs, disk, plots, log, handles, exc, tif_files, file_idx,
                   locals>>

\* Mutation: the file name alone is put below the output root.
OutputPath_Flat(rel) == output_dir \o <<Name(rel)>>

\* Lines 49-50: the file's path below the input root, put below the output root.
OutputPath(rel) == output_dir \o rel
\* Line 54.
MkdirParents(path) == dirs \cup Ancestors(Parent(path))

\* Lines 47-54.
Begin ==
    /\ pc = "begin"
    /\ relative_path' = relative_to(tif_path, input_dir)
    /\ output_path' = OutputPath(relative_path')
    /\ log' = Append(log, Line("processing", relative_path', tif_path))
    /\ \/ /\ dirs' = MkdirParents(output_path')
          /\ pc' = "open"
          /\ UNCHANGED exc
       \/ /\ Raise(Exc("OSError", "mkdir"), "outer")
          /\ UNCHANGED dirs
    /\ UNCHANGED <<world, disk, plots, handles, loop, src, geo_reprojected,
                   out_image, out_transform, out_meta, masked_data>>

\* Line 57.
Open ==
    /\ pc = "open"
    /\ \/ /\ src' = inputs[tif_path]
          /\ handles' = handles \cup {Raster(tif_path)}
          /\ pc' = "reproject"
          /\ UNCHANGED exc
       \/ /\ Raise(IOError, "outer")
          /\ UNCHANGED <<src, handles>>
    /\ UNCHANGED <<world, dirs, disk, plots, log, loop, relative_path, output_path,
                   geo_reprojected, out_image, out_transform, out_meta, masked_data>>

\* Line 59: GeoDataFrame.to_crs returns a new frame; an undefined target CRS
\* raises ValueError (outside the inner try).
to_crs(g, crs) == [geometry |-> g.geometry, crs |-> crs]

\* Mutation: the frame geo itself is replaced by its reprojection.
Reproject_InPlace ==
    /\ pc = "reproject"
    /\ IF src.meta.crs = NoCRS
       THEN /\ Raise(Exc("ValueError", "Must pass either crs or epsg."), "outer")
            /\ UNCHANGED <<geo, geo_reprojected>>
       ELSE /\ geo' = to_crs(geo, src.meta.crs)
            /\ geo_reprojected' = geo'
            /\ pc' = "clip"
            /\ UNCHANGED exc
    /\ UNCHANGED <<inputs, args, boundary, ret, other, dirs, disk, plots, log, handles, loop,
                   relative_path, output_path, src, out_image, out_transform, out_meta,
                   masked_data>>

Reproject ==
    /\ pc = "reproject"
    /\ IF src.meta.crs = NoCRS
       THEN /\ Raise(Exc("ValueError", "Must pass either crs or epsg."), "outer")
            /\ UNCHANGED geo_reprojected
       ELSE /\ geo_reprojected' = to_crs(geo, src.meta.crs)
            /\ pc' = "clip"
            /\ UNCHANGED exc
    /\ UNCHANGED <<world, dirs, disk, plots, log, handles, loop, relative_path,
                   output_path, src, out_image, out_transform, out_meta, masked_data>>

\* Lines 63-64: mask(src, shapes, crop=True) and the copy of the metadata.
Clip ==
    /\ pc = "clip"
    /\ \/ /\ src.window # None
          /\ out_image' = src.window.image
          /\ out_transform' = src.window.transform
          /\ out_meta' = src.meta
          /\ pc' = "normalize"
          /\ UNCHANGED exc
       \/ /\ src.window = None
          /\ Raise(Exc("ValueError", NoOverlapMsg), "inner")
          /\ UNCHANGED <<out_image, out_transform, out_meta>>
       \/ /\ \E e \in {Exc("ValueError", "other"), IOError} : Raise(e, "inner")
          /\ UNCHANGED <<out_image, out_transform, out_meta>>
    /\ UNCHANGED <<world, dirs, disk, plots, log, handles, loop, relative_path,
                   output_path, src, geo_reprojected, masked_data>>

\* Mutation: the transform is left as the source's.
UpdateMeta_StaleTransform(meta, img, transform) ==
    [meta EXCEPT !.height = img.h, !.width = img.w]

\* Lines 74-78.
UpdateMeta(meta, img, transform) ==
    [meta EXCEPT !.height = img.h, !.width = img.w, !.transform = transform]

\* Lines 67-78: the forward pass and the metadata update.
Normalize ==
    /\ pc = "normalize"
    /\ \/ /\ out_image' = Forward(out_image, src.meta.nodata)
          /\ out_meta' = UpdateMeta(out_meta, out_image', out_transform)
          /\ pc' = "open_dest"
          /\ UNCHANGED exc
       \/ /\ Raise(Exc("MemoryError", "np.where"), "inner")
          /\ UNCHANGED <<out_image, out_meta>>
    /\ UNCHANGED <<world, dirs, disk, plots, log, handles, loop, relative_path,
                   output_path, src, geo_reprojected, out_transform, masked_data>>

\* Line 81: the output file is created (truncated) with out_meta.
Created(meta) == [meta |-> meta, data |-> None, closed |-> FALSE]
Put(f, k, val) == [q \in DOMAIN f \cup {k} |-> IF q = k THEN val ELSE f[q]]

OpenDest ==
    /\ pc = "open_dest"
    /\ \/ /\ Parent(output_path) \in dirs
          /\ disk' = Put(disk, output_path, Created(out_meta))
          /\ handles' = handles \cup {Raster(output_path)}
          /\ pc' = "write"
          /\ UNCHANGED exc
       \/ /\ \E e \in {Exc("ValueError", "other"), IOError} : Raise(e, "inner")
          /\ UNCHANGED <<disk, handles>>
    /\ UNCHANGED <<world, dirs, plots, log, loop, locals>>

\* Mutation: the plot is drawn inside the with block of line 81, before
\* the output file is written and closed.
Write_Unflushed ==
    /\ pc = "write"
    /\ pc' = "render"
    /\ UNCHANGED <<world, dirs, disk, plots, log, handles, exc, loop, locals>>

\* Lines 83-85: the reverse pass, the write, and the close of the with block.
Write ==
    /\ pc = "write"
    /\ out_image' = Reverse(out_image, src.meta.nodata)
    /\ \/ /\ disk' = [disk EXCEPT ![output_path].data = out_image',
                                 ![output_path].closed = TRUE]
          /\ handles' = handles \ {Raster(output_path)}
          /\ pc' = "render"
          /\ UNCHANGED exc
       \/ /\ Raise(IOError, "inner")
          /\ UNCHANGED <<disk, handles>>
    /\ UNCHANGED <<world, dirs, plots, log, loop, relative_path, output_path, src,
                   geo_reprojected, out_transform, out_meta, masked_data>>

\* Mutation: the last band is masked and drawn.
RenderMask_LastBand ==
    /\ pc = "render"
    /\ \/ /\ masked_data' = masked_invalid(out_image.bands[Len(out_image.bands)])
          /\ IF ~AllMasked(masked_data')
             THEN /\ handles' = handles \cup {Figure(tif_path)}
                  /\ pc' = "plot"
                  /\ UNCHANGED log
             ELSE /\ log' = Append(log, Line("all_masked", <<Name(relative_path)>>,
                                             tif_path))
                  /\ pc' = "report"
                  /\ UNCHANGED handles
          /\ UNCHANGED exc
       \/ /\ Raise(Exc("TypeError", "masked_invalid"), "plot")
          /\ UNCHANGED <<masked_data, handles, log>>
    /\ UNCHANGED <<world, dirs, disk, plots, loop, relative_path, output_path, src,
                   geo_reprojected, out_image, out_transform, out_meta>>

\* Lines 90-94: the mask of the first band and the all-masked test.
RenderMask ==
    /\ pc = "render"
    /\ \/ /\ masked_data' = masked_invalid(out_image.bands[1])
          /\ IF ~AllMasked(masked_data')
             THEN /\ handles' = handles \cup {Figure(tif_path)}
                  /\ pc' = "plot"
                  /\ UNCHANGED log
             ELSE /\ log' = Append(log, Line("all_masked", <<Name(relative_path)>>,
                                             tif_path))
                  /\ pc' = "report"
                  /\ UNCHANGED handles
          /\ UNCHANGED exc
       \/ /\ Raise(Exc("TypeError", "masked_invalid"), "plot")
          /\ UNCHANGED <<masked_data, handles, log>>
    /\ UNCHANGED <<world, dirs, disk, plots, loop, relative_path, output_path, src,
                   geo_reprojected, out_image, out_transform, out_meta>>

\* str.lower() of a token.
Lower(t) ==
    IF t = "PREC" THEN "prec"
    ELSE IF t = "Elev" THEN "elev"
    ELSE t

\* Lines 96-105: a word in the lower-cased relative path (directories and
\* file name) selects the colormap.
Colormap(rel) ==
    LET has(t) ==
            \E i \in DOMAIN rel : \E j \in DOMAIN rel[i].stem : Lower(rel[i].stem[j]) = t
    IN IF has("prec") THEN [cmap |-> "Blues", label |-> "Precipitation (mm)"]
       ELSE IF has("elev") THEN [cmap |-> "terrain", label |-> "Elevation (m)"]
       ELSE [cmap |-> "viridis", label |-> "Value"]

\* Line 120.
PlotPath(rel) == output_dir \o <<PlotName(rel)>>

\* Lines 108-121: the percentile bounds and the image that is saved.
Preview(rel, m) ==
    LET valid_data == compressed(m)
    IN [cmap |-> Colormap(rel).cmap,
        label |-> Colormap(rel).label,
        vmin |-> percentile(valid_data, PctLow),
        vmax |-> percentile(valid_data, PctHigh),
        image |-> m,
        title |-> <<Name(rel)>>]

\* Lines 96-125: the plot and its save.
RenderPlot ==
    /\ pc = "plot"
    /\ \/ /\ IF Len(compressed(masked_data)) > 0
             THEN /\ plots' = Put(plots, PlotPath(relative_path),
                                  Preview(relative_path, masked_data))
                  /\ handles' = handles \ {Figure(tif_path)}
                  /\ log' = Append(log, Line("plot_saved", PlotPath(relative_path),
                                             tif_path))
             ELSE /\ log' = Append(log, Line("no_valid_data", <<Name(relative_path)>>,
                                             tif_path))
                  /\ UNCHANGED <<plots, handles>>
          /\ pc' = "report"
          /\ UNCHANGED exc
       \/ /\ Raise(IOError, "plot")
          /\ UNCHANGED <<plots, handles, log>>
    /\ UNCHANGED <<world, dirs, disk, loop, locals>>

\* Line 133, the end of the with block of line 57, and the next file.
Processed ==
    /\ pc = "report"
    /\ log' = Append(log, Line("processed", output_path, tif_path))
    /\ handles' = handles \ {Raster(tif_path)}
    /\ file_idx' = file_idx + 1
    /\ pc' = "file_loop"
    /\ ResetLocals
    /\ UNCHANGED <<world, dirs, disk, plots, exc, dir_idx, tif_files, tif_path>>

\* ------------------------------ preprocessing.clip_raster_with_boundary
idle == <<dir_idx, tif_files, file_idx, tif_path, relative_path, output_path,
          geo_reprojected, masked_data, plots, geo, inputs, args, exc, other>>

\* Mutation: the handler returns True.
CfExcept_ReturnsTrue ==
    /\ log' = Append(log, Line("error_clipping", args.raster_path, args.raster_path))
    /\ handles' = {}
    /\ ret' = "True"
    /\ pc' = "cf_done"

\* Lines 95-97: any exception is printed and False returned; the with blocks
\* have closed their rasters.
CfExcept ==
    /\ log' = Append(log, Line("error_clipping", args.raster_path, args.raster_path))
    /\ handles' = {}
    /\ ret' = "False"
    /\ pc' = "cf_done"

\* Lines 66-69: the boundary is read and the raster opened.
CfRead ==
    /\ pc = "cf_read"
    /\ \/ /\ boundary' = inputs[args.boundary_path]
          /\ src' = inputs[args.raster_path]
          /\ handles' = handles \cup {Raster(args.raster_path)}
          /\ pc' = "cf_reproject"
          /\ UNCHANGED <<idle, dirs, disk, log, ret, out_image, out_transform, out_meta>>
       \/ /\ CfExcept
          /\ UNCHANGED <<idle, dirs, disk, boundary, src, out_image, out_transform, out_meta>>

\* Line 70: to_crs raises for a frame without CRS or an undefined target.
CfReproject ==
    /\ pc = "cf_reproject"
    /\ IF boundary.crs = NoCRS \/ src.meta.crs = NoCRS
       THEN /\ CfExcept
            /\ UNCHANGED <<idle, dirs, disk, boundary, src, out_image, out_transform,
                           out_meta>>
       ELSE /\ boundary' = to_crs(boundary, src.meta.crs)
            /\ pc' = "cf_mask"
            /\ UNCHANGED <<idle, dirs, disk, log, handles, ret, src, out_image,
                           out_transform, out_meta>>

\* Mutation: the metadata is rebuilt without the source's nodata.
CfUpdateMeta_NodataLost(meta, img, transform) ==
    [meta EXCEPT !.driver = "GTiff", !.height = img.h, !.width = img.w,
                 !.transform = transform, !.nodata = None]

\* Lines 80-85.
CfUpdateMeta(meta, img, transform) ==
    [meta EXCEPT !.driver = "GTiff", !.height = img.h, !.width = img.w,
                 !.transform = transform]

\* Lines 73-85: the clip, the copy of the metadata and its update.
CfMask ==
    /\ pc = "cf_mask"
    /\ \/ /\ src.window # None
          /\ out_image' = src.window.image
          /\ out_transform' = src.window.transform
          /\ out_meta' = CfUpdateMeta(src.meta, out_image', out_transform')
          /\ pc' = "cf_write"
          /\ UNCHANGED <<idle, dirs, disk, log, handles, ret, boundary, src>>
       \/ /\ CfExcept
          /\ UNCHANGED <<idle, dirs, disk, boundary, src, out_image, out_transform, out_meta>>

\* Lines 88-94: os.makedirs(dirname(output_path)) raises for an empty
\* dirname; then the raster is written and True returned.
CfWrite ==
    /\ pc = "cf_write"
    /\ \/ /\ Parent(args.output_path) # <<>>
          /\ dirs' = dirs \cup Ancestors(Parent(args.output_path))
          /\ disk' = Put(disk, args.output_path,
                         [meta |-> out_meta, data |-> out_image, closed |-> TRUE])
          /\ handles' = {}
          /\ ret' = "True"
          /\ pc' = "cf_done"
          /\ UNCHANGED <<idle, log, boundary, src, out_image, out_transform, out_meta>>
       \/ /\ Parent(args.output_path) = <<>>
          /\ CfExcept
          /\ UNCHANGED <<idle, dirs, disk, boundary, src, out_image, out_transform, out_meta>>
       \/ /\ Parent(args.output_path) # <<>>
          /\ \E partial \in BOOLEAN :
                /\ dirs' = dirs \cup Ancestors(Parent(args.output_path))
                /\ disk' = IF partial
                           THEN Put(disk, args.output_path,
                                    [meta |-> out_meta, data |-> None, closed |-> TRUE])
                           ELSE disk
          /\ CfExcept
          /\ UNCHANGED <<idle, boundary, src, out_image, out_transform, out_meta>>

\* ---------------------------------- preprocessing.standardize_projection
sp_idle == <<inputs, geo, args, boundary, exc, exists, script_idx, ran, disk, plots,
             handles, loop, locals>>

\* Lines 42-44: any exception is printed and False returned.
SpExcept ==
    /\ log' = Append(log, Line("error_standardizing", args.input_file, args.input_file))
    /\ ret' = "False"
    /\ pc' = "sp_done"

\* Line 34: gpd.read_file(input_file).
SpRead ==
    /\ pc = "sp_read"
    /\ \/ /\ data' = inputs[args.input_file]
          /\ pc' = "sp_reproject"
          /\ UNCHANGED <<sp_idle, dirs, vectors, log, ret>>
       \/ /\ SpExcept
          /\ UNCHANGED <<sp_idle, dirs, vectors, data>>

\* Line 35: to_crs raises for a frame without CRS.
SpReproject ==
    /\ pc = "sp_reproject"
    /\ IF data.crs = NoCRS
       THEN /\ SpExcept
            /\ UNCHANGED <<sp_idle, dirs, vectors, data>>
       ELSE /\ data' = to_crs(data, args.target_epsg)
            /\ pc' = "sp_write"
            /\ UNCHANGED <<sp_idle, dirs, vectors, log, ret>>

\* Lines 38-41: os.makedirs(dirname(output_file)) raises for an empty
\* dirname; then the frame is written and True returned.
SpWrite ==
    /\ pc = "sp_write"
    /\ \/ /\ Parent(args.output_file) # <<>>
          /\ dirs' = dirs \cup Ancestors(Parent(args.output_file))
          /\ vectors' = Put(vectors, args.output_file, data)
          /\ ret' = "True"
          /\ pc' = "sp_done"
          /\ UNCHANGED <<sp_idle, log, data>>
       \/ /\ Parent(args.output_file) = <<>>
          /\ SpExcept
          /\ UNCHANGED <<sp_idle, dirs, vectors, data>>
       \/ /\ Parent(args.output_file) # <<>>
          /\ \E partial \in BOOLEAN :
                /\ dirs' = dirs \cup Ancestors(Parent(args.output_file))
                /\ vectors' = IF partial THEN Put(vectors, args.output_file, None)
                              ELSE vectors
          /\ SpExcept
          /\ UNCHANGED <<sp_idle, data>>

\* ----------------------------------------------- prepare_all_data.main
pm_idle == <<inputs, geo, args, boundary, exc, data, vectors, exists, dirs, disk,
             plots, handles, loop, locals>>

\* Lines 13-17: the script is run and its return code compared with 0.
run_script(rc) == rc = 0

\* Mutation: the loop goes on after a script that failed.
RunNext_KeepsGoing ==
    /\ pc = "pm_loop"
    /\ script_idx <= Len(scripts)
    /\ IF scripts[script_idx] \in exists
       THEN \E rc \in ReturnCodes :
              /\ ran' = Append(ran, [script |-> scripts[script_idx], rc |-> rc])
              /\ log' = IF run_script(rc) THEN log
                        ELSE Append(log, Line("error_running", scripts[script_idx], <<>>))
       ELSE /\ log' = Append(log, Line("not_found", scripts[script_idx], <<>>))
            /\ UNCHANGED ran
    /\ script_idx' = script_idx + 1
    /\ UNCHANGED <<pm_idle, ret, pc>>

\* Lines 33-42: one turn of the loop: a script that is present is run, and
\* its failure ends main with False; a script that is missing is skipped.
RunNext ==
    /\ pc = "pm_loop"
    /\ script_idx <= Len(scripts)
    /\ IF scripts[script_idx] \in exists
       THEN \E rc \in ReturnCodes :
              /\ ran' = Append(ran, [script |-> scripts[script_idx], rc |-> rc])
              /\ IF run_script(rc)
                 THEN /\ script_idx' = script_idx + 1
                      /\ UNCHANGED <<log, ret, pc>>
                 ELSE /\ log' = Append(log, Line("error_running", scripts[script_idx], <<>>))
                      /\ ret' = "False"
                      /\ pc' = "pm_done"
                      /\ UNCHANGED script_idx
       ELSE /\ log' = Append(log, Line("not_found", scripts[script_idx], <<>>))
            /\ script_idx' = script_idx + 1
            /\ UNCHANGED <<ran, ret, pc>>
    /\ UNCHANGED pm_idle

\* Lines 43-44, after the last script.
AllDone ==
    /\ pc = "pm_loop"
    /\ script_idx > Len(scripts)
    /\ log' = Append(log, Line("all_completed", <<>>, <<>>))
    /\ ret' = "True"
    /\ pc' = "pm_done"
    /\ UNCHANGED <<pm_idle, script_idx, ran>>

\* The steps of processor.py.
NextProcessor ==
    \/ ExceptFile
    \/ ExceptPlot
    \/ DirLoop
    \/ Summary
    \/ FileLoop
    \/ Begin
    \/ Open
    \/ Reproject
    \/ Clip
    \/ Normalize
    \/ OpenDest
    \/ Write
    \/ RenderMask
    \/ RenderPlot
    \/ Processed

Next ==
    \/ CfRead
    \/ CfReproject
    \/ CfMask
    \/ CfWrite
    \/ SpRead
    \/ SpReproject
    \/ SpWrite
    \/ RunNext
    \/ AllDone
    \/ NextProcessor

Spec == Init /\ [][Next]_vars

\* The runs of processor.py over a tree of rasters and a text file.  The
\* script is one sequential thread: while a statement is left to run, it runs.
InitBatch == InitProcessor /\ NotesPath \in DOMAIN inputs
FairSpec == InitBatch /\ [][NextProcessor]_vars /\ WF_vars(NextProcessor)

\* ------------------------------------------------------------------ claims
Last(s) == s[Len(s)]
\* The rasters of the input tree, and where the batch mirrors each.
TifInputs == {p \in DOMAIN inputs : Name(p).ext = ".tif"}
Mirror(p) == <<Dir("data"), Dir("processed"), p[3]>> \o SubSeq(p, 4, Len(p))
\* The input files a written raster was clipped from.
SourcesOf(q) ==
    IF args # None
    THEN IF q = args.output_path THEN {args.raster_path} ELSE {}
    ELSE {p \in TifInputs : Mirror(p) = q}
Complete(f) == f.closed /\ f.data # None
\* The clipped array as mask() returned it, and the declared nodata.
Clipped == src.window.image
Nodata == src.meta.nodata
Invalid(px, nodata) == ~isfinite(px) \/ (nodata # None /\ NpEq(px, nodata))
InFile == pc \in {"open", "reproject", "clip", "normalize", "open_dest", "write",
                  "render", "plot", "report", "except"}
LinesOf(p) == {i \in DOMAIN log : log[i].of = p}
TerminalKinds == {"processed", "no_overlap", "error_processing", "error_file"}

\* C1 (as claimed): with a declared nodata value, the array after the forward
\* and the reverse pass equals the clipped array exactly.
C1_RoundTripExact ==
    (pc = "render" /\ Nodata # None) => out_image = Clipped

\* C1 (amended): with a declared nodata value, after the forward and the
\* reverse pass every finite pixel other than nodata has its value, and every
\* nodata pixel and every non-finite pixel is the nodata value.
C1_RoundTrip ==
    (pc = "render" /\ Nodata # None) =>
        /\ out_image.h = Clipped.h /\ out_image.w = Clipped.w
        /\ DOMAIN out_image.bands = DOMAIN Clipped.bands
        /\ \A b \in DOMAIN Clipped.bands :
            /\ DOMAIN out_image.bands[b] = DOMAIN Clipped.bands[b]
            /\ \A i \in DOMAIN Clipped.bands[b] :
                 out_image.bands[b][i] =
                    IF Invalid(Clipped.bands[b][i], Nodata) THEN Nodata
                    ELSE Clipped.bands[b][i]

C1_Witness ==
    /\ pc = "render"
    /\ Nodata = Fin(0)
    /\ \E i, j, k \in DOMAIN Clipped.bands[1] :
         /\ isinf(Clipped.bands[1][i])
         /\ Clipped.bands[1][j] = Nodata
         /\ Clipped.bands[1][k] = Fin(1)

\* C2: when the percentile bounds are computed, no pixel of the clipped band
\* that was nodata or non-finite is among the samples (it is masked).
C2_PercentileOnlyValid ==
    pc = "plot" =>
        \A i \in DOMAIN masked_data.mask :
            Invalid(Clipped.bands[1][i], Nodata) => masked_data.mask[i]

\* C3: a first band that is fully nodata or non-finite gets no preview and
\* the no-valid-data report (unless rendering itself raised).
C3_EmptyBandNoPreview ==
    (/\ pc = "report"
     /\ \A i \in DOMAIN Clipped.bands[1] : Invalid(Clipped.bands[1][i], Nodata)
     /\ Last(log).kind # "plot_warning")
        => Last(log).kind \in {"all_masked", "no_valid_data"}

\* C4: the handler of a no-overlap ValueError logs the warning, leaves no
\* raster at the file's output path and no preview of it, and goes on to the
\* next file.
C4_NoOverlapSkipped ==
    [][(pc = "except" /\ exc.scope = "inner" /\ exc.type = "ValueError"
            /\ exc.msg = NoOverlapMsg) =>
        /\ Last(log').kind = "no_overlap"
        /\ Last(log').of = tif_path
        /\ output_path \notin DOMAIN disk'
        /\ plots' = plots
        /\ \A i \in LinesOf(tif_path) : log[i].kind # "plot_saved"
        /\ pc' = "file_loop"
        /\ file_idx' = file_idx + 1
        /\ tif_files' = tif_files]_vars

C4_Witness ==
    /\ pc = "begin"
    /\ file_idx > 1
    /\ Last(log).kind = "no_overlap"
    /\ Last(log).of = tif_files[file_idx - 1]

\* C5: when the batch has ended, every discovered file was attempted and has
\* a terminal report, and the raster of every file reported processed is on
\* disk, complete.
C5_BatchResilience ==
    pc = "done" =>
        \A p \in TifInputs :
            /\ \E i \in LinesOf(p) : log[i].kind = "processing"
            /\ \E i \in LinesOf(p) : log[i].kind \in TerminalKinds
            /\ (\E i \in LinesOf(p) : log[i].kind = "processed") =>
                 (Mirror(p) \in DOMAIN disk /\ Complete(disk[Mirror(p)]))

C5_Witness ==
    /\ pc = "done"
    /\ \E i, j \in DOMAIN log :
         /\ i < j
         /\ log[i].kind \in {"error_processing", "error_file"}
         /\ log[j].kind = "processed"
         /\ Complete(disk[log[j].what])

\* C6: a failure of the rendering is caught: the warning is logged, the
\* written raster stays as it is, the file is reported processed and the
\* loop goes on to the next file.
C6_RenderFailureContained ==
    [][/\ (pc = "except" /\ exc.scope = "plot") =>
            /\ Last(log').kind = "plot_warning"
            /\ Complete(disk[output_path])
            /\ disk[output_path].data = out_image
            /\ disk' = disk
            /\ pc' = "report"
       /\ (pc = "report") =>
            /\ Last(log') = Line("processed", output_path, tif_path)
            /\ disk' = disk
            /\ pc' = "file_loop"
            /\ file_idx' = file_idx + 1
            /\ tif_files' = tif_files]_vars

C6_Witness ==
    /\ pc = "begin"
    /\ \E i \in DOMAIN log :
         /\ i + 1 \in DOMAIN log
         /\ log[i].kind = "plot_warning"
         /\ log[i + 1].kind = "processed"
         /\ Complete(disk[log[i + 1].what])
         /\ log[i].of # tif_path

\* C7: every raster opened for writing has the clipped array's height and
\* width and the clip's transform in its metadata.
C7_DimensionsMatchClip ==
    \A q \in DOMAIN disk :
        /\ disk[q].data # None =>
             (disk[q].meta.height = disk[q].data.h /\ disk[q].meta.width = disk[q].data.w)
        /\ \A p \in SourcesOf(q) :
             /\ disk[q].meta.height = inputs[p].window.image.h
             /\ disk[q].meta.width = inputs[p].window.image.w
             /\ disk[q].meta.transform = inputs[p].window.transform

C7_Witness ==
    /\ args = None
    /\ \E q \in DOMAIN disk : \E p \in SourcesOf(q) :
         /\ Complete(disk[q])
         /\ inputs[p].meta.height # disk[q].meta.height
         /\ inputs[p].meta.width # disk[q].meta.width
         /\ inputs[p].meta.transform # disk[q].meta.transform

\* C8 (as claimed): the metadata of every written raster has the source's
\* driver, dtype, band count, CRS and nodata.
C8_OnlyExtentChanges ==
    \A q \in DOMAIN disk : \A p \in SourcesOf(q) :
        /\ disk[q].meta.driver = inputs[p].meta.driver
        /\ disk[q].meta.dtype = inputs[p].meta.dtype
        /\ disk[q].meta.count = inputs[p].meta.count
        /\ disk[q].meta.crs = inputs[p].meta.crs
        /\ disk[q].meta.nodata = inputs[p].meta.nodata

\* C8 (amended): the metadata of every written raster has the source's
\* dtype, band count, CRS and nodata; its driver is the source's in the batch
\* script and GTiff in clip_raster_with_boundary.
C8_InheritedFields ==
    \A q \in DOMAIN disk : \A p \in SourcesOf(q) :
        /\ disk[q].meta.driver = IF args = None THEN inputs[p].meta.driver ELSE "GTiff"
        /\ disk[q].meta.dtype = inputs[p].meta.dtype
        /\ disk[q].meta.count = inputs[p].meta.count
        /\ disk[q].meta.crs = inputs[p].meta.crs
        /\ disk[q].meta.nodata = inputs[p].meta.nodata

C8_Witness ==
    /\ pc = "cf_done"
    /\ ret = "True"
    /\ inputs[args.raster_path].meta.driver = "HFA"
    /\ inputs[args.raster_path].meta.nodata # None
    /\ Complete(disk[args.output_path])

\* C9: the output path of the file in hand is its path below the input root
\* put below the output root, and its parent directories exist when the
\* raster is opened for writing.
C9_DirectoryMirroring ==
    InFile =>
        /\ output_path = Mirror(tif_path)
        /\ pc \in {"open_dest", "write"} => Ancestors(Parent(output_path)) \subseteq dirs
        /\ DOMAIN disk \subseteq {Mirror(p) : p \in TifInputs}

C9_Witness ==
    /\ pc = "write"
    /\ Len(relative_path) = 2
    /\ output_path = <<Dir("data"), Dir("processed"), Dir("rainfall"), Dir("sub"),
                       File("prec", ".tif")>>

\* C10: every saved preview is named <stem>_plot.png and lies in the
\* directory of its file's raster output.
C10_PreviewBesideRaster ==
    \A i \in DOMAIN log :
        log[i].kind = "plot_saved" =>
            /\ Name(log[i].what) = PlotName(log[i].of)
            /\ Parent(log[i].what) = Parent(Mirror(log[i].of))

\* C11: the colormap and label of every saved preview are those its file name
\* alone selects: precipitation first, then elevation, then the default.
NamePalette(name) ==
    LET has(t) == \E j \in DOMAIN name.stem : Lower(name.stem[j]) = t
    IN IF has("prec") THEN [cmap |-> "Blues", label |-> "Precipitation (mm)"]
       ELSE IF has("elev") THEN [cmap |-> "terrain", label |-> "Elevation (m)"]
       ELSE [cmap |-> "viridis", label |-> "Value"]

C11_PaletteByFilename ==
    \A q \in DOMAIN plots :
        /\ plots[q].cmap = NamePalette(plots[q].title[1]).cmap
        /\ plots[q].label = NamePalette(plots[q].title[1]).label

\* C12: a file moves through the stages in the one order open, reproject,
\* clip, normalize, write, render, report; each stage is entered with the
\* work of the stages before it done (the raster is complete on disk before
\* the render starts); the only other exits are the handlers, which end the
\* file skipped (no overlap) or failed, or end a failed render.
StageOrder ==
    { <<"file_loop", "begin">>, <<"begin", "open">>, <<"open", "reproject">>,
      <<"reproject", "clip">>, <<"clip", "normalize">>,
      <<"normalize", "open_dest">>, <<"open_dest", "write">>,
      <<"write", "render">>, <<"render", "plot">>, <<"render", "report">>,
      <<"plot", "report">>, <<"report", "file_loop">> }
FileStages == {"begin", "open", "reproject", "clip", "normalize", "open_dest",
               "write", "render", "plot", "report", "except"}
StageDone ==
    /\ pc \in {"clip", "normalize", "open_dest", "write", "render", "plot", "report"}
        => /\ src # None
           /\ geo_reprojected # None
           /\ geo_reprojected.crs = src.meta.crs
    /\ pc \in {"normalize", "open_dest", "write", "render", "plot", "report"}
        => out_image # None
    /\ pc \in {"open_dest", "write", "render", "plot", "report"}
        => /\ out_meta.transform = out_transform
           /\ \A b \in DOMAIN out_image.bands : \A i \in DOMAIN out_image.bands[b] :
                ~isinf(out_image.bands[b][i])
    /\ pc \in {"render", "plot", "report"}
        => /\ output_path \in DOMAIN disk
           /\ Complete(disk[output_path])
           /\ Raster(output_path) \notin handles
    /\ pc = "report"
        => Last(log).kind \in {"plot_saved", "all_masked", "no_valid_data", "plot_warning"}

C12_StageOrder ==
    [][(pc \in FileStages \/ pc' \in FileStages) =>
        /\ StageDone'
        /\ (pc' # pc /\ pc # "except" /\ pc' # "except") => <<pc, pc'>> \in StageOrder
        /\ pc' = "except" => pc \in FileStages \ {"except", "report"}
        /\ pc = "except" =>
              \/ /\ exc.scope = "plot"
                 /\ pc' = "report"
                 /\ plots' = plots
              \/ /\ exc.scope # "plot"
                 /\ pc' = "file_loop"
                 /\ Last(log').kind \in {"no_overlap", "error_processing", "error_file"}
                 /\ Last(log').kind = "no_overlap" <=> exc.msg = NoOverlapMsg
        /\ (pc = "report" /\ pc' # pc) => Last(log').kind = "processed"
        /\ plots' # plots => pc = "plot"]_vars

C12_Witness ==
    /\ pc = "report"
    /\ Last(log).kind = "plot_saved"
    /\ \E i, j \in DOMAIN log : log[i].kind = "no_overlap" /\ log[j].kind = "error_file"

\* C13: between files (and when the batch has ended) no raster and no figure
\* is open, whichever way the file before ended; while a file is processed
\* the only open rasters and figures are its own.
C13_HandlesReleased ==
    /\ pc \in {"dir_loop", "file_loop", "begin", "done"} => handles = {}
    /\ pc \in FileStages =>
          handles \subseteq {Raster(tif_path), Raster(output_path), Figure(tif_path)}

\* One file has ended after a failed render, another in a handler of the
\* file, and the next file begins.
C13_Witness ==
    /\ pc = "begin"
    /\ handles = {}
    /\ \E i \in DOMAIN log : log[i].kind = "plot_warning"
    /\ \E i \in DOMAIN log : log[i].kind \in {"no_overlap", "error_processing", "error_file"}

\* C14: the files of a category are taken one at a time in the order of the
\* traversal: the file in hand is the file_idx-th found, every file before it
\* has its terminal report, no file after it has been touched, and the
\* reports of two files are never interleaved.
C14_OneAtATime ==
    pc \in FileStages \cup {"file_loop"} =>
        /\ pc \in FileStages => tif_path = tif_files[file_idx]
        /\ \A k \in DOMAIN tif_files :
            /\ k < file_idx =>
                  \E i \in LinesOf(tif_files[k]) :
                     /\ log[i].kind \in TerminalKinds
                     /\ \A j \in LinesOf(tif_files[k]) : j <= i
                     /\ \A l \in DOMAIN tif_files :
                           k < l => \A j \in LinesOf(tif_files[l]) : i < j
            /\ k > file_idx => LinesOf(tif_files[k]) = {}
            /\ (k = file_idx /\ pc \in {"file_loop", "begin"}) => LinesOf(tif_files[k]) = {}
            /\ (k = file_idx /\ pc \in FileStages \ {"begin"}) =>
                  \A j \in LinesOf(tif_files[k]) : log[j].kind \notin TerminalKinds
        /\ \A i, j \in DOMAIN log :
              (i < j /\ log[i].of # <<>> /\ log[j].of # <<>> /\ log[i].of # log[j].of)
                  => \E t \in i..(j - 1) :
                        log[t].of = log[i].of /\ log[t].kind \in TerminalKinds

\* The second file of a category is in a stage, the first has ended.
C14_Witness ==
    /\ pc = "clip"
    /\ file_idx = 2
    /\ Len(tif_files) = 2
    /\ LinesOf(tif_files[1]) # {}

\* C15: the frame geo built at the start keeps its polygon and its WGS84 CRS
\* through the whole batch, and the reprojected frame of the file in hand is
\* that polygon in the CRS of the file's raster.
C15_GeoUnchanged ==
    /\ geo = [geometry |-> "bbox", crs |-> WGS84]
    /\ (pc \in FileStages /\ geo_reprojected # None) =>
          /\ geo_reprojected.geometry = geo.geometry
          /\ geo_reprojected.crs = inputs[tif_path].meta.crs

\* A raster in UTM has been reprojected to after a raster in WGS84 was
\* processed.
C15_Witness ==
    /\ pc = "clip"
    /\ geo_reprojected.crs = UTM43N
    /\ \E i \in DOMAIN log :
          /\ log[i].kind = "processed"
          /\ inputs[log[i].of].meta.crs = WGS84

\* The array in the output file of the file in hand.
Written == disk[output_path].data
HasNaN(img) ==
    \E b \in DOMAIN img.bands : \E i \in DOMAIN img.bands[b] : isnan(img.bands[b][i])

\* C16 (as claimed): when the raster declares a nodata value, the written
\* array holds no NaN.
C16_NoSentinelWritten ==
    (pc = "render" /\ Nodata # None) => ~HasNaN(Written)

\* C16 (amended): every pixel that was nodata or non-finite is written as the
\* declared nodata value, so the written array holds no NaN when a nodata
\* value other than NaN is declared; with nodata NaN, or none declared, such
\* pixels are written as NaN; every other pixel is written with its value.
C16_SentinelReplaced ==
    pc = "render" =>
        /\ Written = out_image
        /\ \A b \in DOMAIN Clipped.bands : \A i \in DOMAIN Clipped.bands[b] :
              Written.bands[b][i] =
                 IF Invalid(Clipped.bands[b][i], Nodata)
                 THEN IF Nodata # None THEN Nodata ELSE NaN
                 ELSE Clipped.bands[b][i]
        /\ (Nodata # None /\ ~isnan(Nodata)) => ~HasNaN(Written)

\* A raster with nodata NaN, a NaN pixel and a finite pixel has been written.
C16_Witness ==
    /\ pc = "render"
    /\ Nodata = NaN
    /\ HasNaN(Clipped)
    /\ HasNaN(Written)
    /\ \E i \in DOMAIN Written.bands[1] : isfinite(Written.bands[1][i])

\* C17: after the forward pass a pixel is NaN exactly when the clipped pixel
\* equalled the declared nodata value or was +inf, -inf or NaN; every other
\* pixel has its clipped value, which is finite and so is not NaN.
C17_ForwardPass ==
    pc = "open_dest" =>
        /\ out_image.h = Clipped.h /\ out_image.w = Clipped.w
        /\ DOMAIN out_image.bands = DOMAIN Clipped.bands
        /\ \A b \in DOMAIN Clipped.bands :
            /\ DOMAIN out_image.bands[b] = DOMAIN Clipped.bands[b]
            /\ \A i \in DOMAIN Clipped.bands[b] :
                /\ isnan(out_image.bands[b][i]) <=> Invalid(Clipped.bands[b][i], Nodata)
                /\ ~isnan(out_image.bands[b][i]) =>
                      /\ out_image.bands[b][i] = Clipped.bands[b][i]
                      /\ out_image.bands[b][i] \in FiniteValues

\* The clipped band held -inf, the nodata value and another finite value.
C17_Witness ==
    /\ pc = "open_dest"
    /\ Nodata = Fin(0)
    /\ \E i, j, k \in DOMAIN Clipped.bands[1] :
         /\ Clipped.bands[1][i] = NegInf
         /\ Clipped.bands[1][j] = Nodata
         /\ out_image.bands[1][k] = Fin(1)

\* C18: the 2nd percentile of the valid samples is never above their 98th
\* percentile, in the plot about to be drawn and in every preview saved.
C18_BoundsOrdered ==
    /\ (pc = "plot" /\ Len(compressed(masked_data)) > 0) =>
          percentile(compressed(masked_data), PctLow)
             <= percentile(compressed(masked_data), PctHigh)
    /\ \A q \in DOMAIN plots : plots[q].vmin <= plots[q].vmax

\* A preview was saved of a band whose valid samples are not in ascending
\* order and not all equal.
C18_Witness ==
    \E q \in DOMAIN plots :
        /\ plots[q].vmin < plots[q].vmax
        /\ \E i, j \in DOMAIN plots[q].image.data :
              /\ i < j
              /\ ~plots[q].image.mask[i] /\ ~plots[q].image.mask[j]
              /\ plots[q].image.data[i].v > plots[q].image.data[j].v

\* C19: when to_crs raises for the CRS of a file's raster, the handler logs
\* the error of the file, no raster is at the file's output path and no
\* preview was made of it, and the loop goes on to the next file.
C19_ReprojectionFailure ==
    [][(pc = "except" /\ exc.scope = "outer" /\ exc.type = "ValueError"
            /\ src # None) =>
        /\ Last(log').kind = "error_file"
        /\ Last(log').of = tif_path
        /\ output_path \notin DOMAIN disk'
        /\ disk' = disk
        /\ plots' = plots
        /\ \A i \in LinesOf(tif_path) : log[i].kind # "plot_saved"
        /\ handles' = {}
        /\ pc' = "file_loop"
        /\ file_idx' = file_idx + 1
        /\ tif_files' = tif_files]_vars

\* After a file whose raster has no CRS failed, the next file of the category
\* begins.
C19_Witness ==
    /\ pc = "begin"
    /\ file_idx > 1
    /\ Last(log).kind = "error_file"
    /\ Last(log).of = tif_files[file_idx - 1]
    /\ inputs[tif_files[file_idx - 1]].meta.crs = NoCRS

\* C20: every run of the batch ends; when it has ended every raster found has
\* its terminal report, and the summary line is printed once, as the last
\* line, after all of them.
SummaryLines == {i \in DOMAIN log : log[i].kind = "complete"}
AllTerminal ==
    \A p \in TifInputs : \E i \in LinesOf(p) : log[i].kind \in TerminalKinds

C20_BatchTerminates ==
    /\ [](SummaryLines # {} =>
            /\ SummaryLines = {Len(log)}
            /\ AllTerminal
            /\ pc = "done")
    /\ (pc = "dir_loop" /\ dir_idx = 1) ~>
            (pc = "done" /\ SummaryLines # {} /\ AllTerminal)

\* A batch of three rasters in both categories has ended, with a processed,
\* a skipped and a failed file.
C20_Witness ==
    /\ pc = "done"
    /\ Cardinality(TifInputs) = 3
    /\ Last(log).kind = "complete"
    /\ \E i, j, k \in DOMAIN log :
          /\ log[i].kind = "processed"
          /\ log[j].kind = "no_overlap"
          /\ log[k].kind = "error_file"

\* C21: when the batch has ended, what is at the outputs of a file is what
\* that file's own processing produced, whatever other files were in the
\* batch: the raster at its output path was clipped from its own raster, and
\* the preview at the path reported for it shows the band written for it.
C21_FileIndependence ==
    pc = "done" =>
        \A i \in DOMAIN log :
            /\ log[i].kind = "processed" =>
                  /\ Complete(disk[log[i].what])
                  /\ disk[log[i].what].meta.crs = inputs[log[i].of].meta.crs
                  /\ disk[log[i].what].data.h = inputs[log[i].of].window.image.h
                  /\ disk[log[i].what].data.w = inputs[log[i].of].window.image.w
            /\ log[i].kind = "plot_saved" =>
                  plots[log[i].what].image.data = disk[Mirror(log[i].of)].data.bands[1]

\* C22: the mask, the decision to draw, the percentile bounds and the image
\* of a preview are those of the first band of the written array; no other
\* band enters them.
FirstBand == out_image.bands[1]
FiniteOf(band) == compressed(masked_invalid(band))

C22_FirstBandOnly ==
    /\ pc = "plot" => masked_data = masked_invalid(FirstBand)
    /\ (pc = "report" /\ Last(log).kind # "plot_warning") =>
          /\ Last(log).kind = "plot_saved" <=> Len(FiniteOf(FirstBand)) > 0
          /\ Last(log).kind = "plot_saved" =>
                /\ plots[Last(log).what].image = masked_invalid(FirstBand)
                /\ plots[Last(log).what].vmin = percentile(FiniteOf(FirstBand), PctLow)
                /\ plots[Last(log).what].vmax = percentile(FiniteOf(FirstBand), PctHigh)

\* A preview was saved of a two-band raster whose second band holds a NaN
\* and a value above every value of the first band.
C22_Witness ==
    /\ pc = "report"
    /\ Last(log).kind = "plot_saved"
    /\ Len(out_image.bands) = 2
    /\ out_image.bands[1] = <<Fin(0), Fin(1)>>
    /\ out_image.bands[2] = <<NaN, Fin(2)>>

\* C23: clip_raster_with_boundary and standardize_projection end every call
\* by returning: no exception is left pending; True is returned exactly when
\* the output file was written whole by the last step, and False exactly when
\* a step failed and its error was printed.
CfSteps == {"cf_read", "cf_reproject", "cf_mask", "cf_write"}
SpSteps == {"sp_read", "sp_reproject", "sp_write"}

C23_ReturnsNeverRaises ==
    /\ pc \in CfSteps \cup SpSteps \cup {"cf_done", "sp_done"} => exc = NoExc
    /\ pc \in CfSteps \cup SpSteps => (ret = "none" /\ log = <<>>)
    /\ pc = "cf_done" =>
          /\ ret \in {"True", "False"}
          /\ ret = "True" <=>
                /\ args.output_path \in DOMAIN disk
                /\ Complete(disk[args.output_path])
                /\ disk[args.output_path].data = inputs[args.raster_path].window.image
                /\ Parent(args.output_path) \in dirs
          /\ ret = "False" <=> (Len(log) = 1 /\ log[1].kind = "error_clipping")
          /\ ret = "True" <=> log = <<>>
          /\ (\/ inputs[args.raster_path].window = None
              \/ inputs[args.raster_path].meta.crs = NoCRS
              \/ inputs[args.boundary_path].crs = NoCRS
              \/ Parent(args.output_path) = <<>>) => ret = "False"
    /\ pc = "sp_done" =>
          /\ ret \in {"True", "False"}
          /\ ret = "True" <=>
                /\ args.output_file \in DOMAIN vectors
                /\ vectors[args.output_file] =
                      to_crs(inputs[args.input_file], args.target_epsg)
                /\ Parent(args.output_file) \in dirs
          /\ ret = "False" <=> (Len(log) = 1 /\ log[1].kind = "error_standardizing")
          /\ ret = "True" <=> log = <<>>
          /\ (\/ inputs[args.input_file].crs = NoCRS
              \/ Parent(args.output_file) = <<>>) => ret = "False"

\* standardize_projection returned False because the output path has no
\* directory part, after the frame was read and reprojected.
C23_Witness ==
    /\ pc = "sp_done"
    /\ ret = "False"
    /\ data # None
    /\ data.crs = args.target_epsg
    /\ Parent(args.output_file) = <<>>
\* C24: a file reported skipped or failed has no raster at its output path,
\* whole or partial.
C24_NoPartialOutput ==
    \A i \in DOMAIN log :
        log[i].kind \in {"no_overlap", "error_processing", "error_file"}
            => Mirror(log[i].of) \notin DOMAIN disk
\* C25: the previews saved for two different input files of a batch are at
\* different paths.
C25_DistinctPreviewPaths ==
    \A i, j \in DOMAIN log :
        (/\ log[i].kind = "plot_saved"
         /\ log[j].kind = "plot_saved"
         /\ log[i].of # log[j].of) => log[i].what # log[j].what
\* C26: no two input files of a run have the same raster output path: when a
\* file's output is about to be created no raster of the run is at its path,
\* and the rasters reported for different files are at different paths.
C26_OutputPathsInjective ==
    /\ pc = "open_dest" => output_path \notin DOMAIN disk
    /\ pc \in {"open_dest", "write", "render", "plot", "report"} =>
          \A i \in DOMAIN log : log[i].kind = "processed" => log[i].what # output_path
    /\ \A i, j \in DOMAIN log :
          (/\ log[i].kind = "processed"
           /\ log[j].kind = "processed"
           /\ log[i].of # log[j].of) => log[i].what # log[j].what

\* The output of a third file of the same name is about to be created, the
\* rasters of the two others, of both categories, are written.
C26_Witness ==
    /\ pc = "open_dest"
    /\ Cardinality(DOMAIN disk) = 2
    /\ \A q \in DOMAIN disk : Complete(disk[q]) /\ Name(q) = Name(output_path)
    /\ dir_idx = 2
\* C27: the handlers of a file print the no-overlap warning exactly for a
\* ValueError of the inner try whose message is the no-overlap message; any
\* other ValueError of that try is printed as an error of processing, and any
\* other exception as an error of the file.
IsNoOverlap(e) == e.scope = "inner" /\ e.type = "ValueError" /\ e.msg = NoOverlapMsg

C27_SkipOnlyOnNoOverlap ==
    [][(pc = "except" /\ exc.scope # "plot") =>
        /\ Len(log') = Len(log) + 1
        /\ Last(log').of = tif_path
        /\ Last(log').kind = "no_overlap" <=> IsNoOverlap(exc)
        /\ Last(log').kind = "error_processing" <=>
              (exc.scope = "inner" /\ exc.type = "ValueError" /\ exc.msg # NoOverlapMsg)
        /\ Last(log').kind = "error_file" <=>
              (exc.scope = "outer" \/ exc.type # "ValueError")]_vars

\* A ValueError of the inner try with another message was reported as an
\* error, after a file without overlap was skipped.
C27_Witness ==
    /\ pc = "file_loop"
    /\ Last(log).kind = "error_processing"
    /\ \E i \in DOMAIN log : log[i].kind = "no_overlap"
\* C28: no file ever has two terminal reports, and when the batch has ended
\* every raster found has exactly one; the warning of a failed plot is
\* followed by the processed report of the same file.
TerminalLines(p) == {i \in LinesOf(p) : log[i].kind \in TerminalKinds}

C28_OneTerminalReport ==
    /\ \A p \in TifInputs :
          /\ Cardinality(TerminalLines(p)) <= 1
          /\ (pc \in {"done", "dir_loop", "file_loop", "begin"} /\ LinesOf(p) # {})
                => Cardinality(TerminalLines(p)) = 1
          /\ pc = "done" => Cardinality(TerminalLines(p)) = 1
    /\ \A i \in DOMAIN log :
          log[i].kind = "plot_warning" =>
              IF i = Len(log) THEN pc = "report" /\ tif_path = log[i].of
              ELSE log[i + 1].kind = "processed" /\ log[i + 1].of = log[i].of

\* A batch has ended in which one file was processed after the warning of
\* its plot, one was skipped and one failed.
C28_Witness ==
    /\ pc = "done"
    /\ Cardinality(TifInputs) = 3
    /\ \E i, j, k \in DOMAIN log :
          /\ log[i].kind = "plot_warning"
          /\ log[j].kind = "no_overlap"
          /\ log[k].kind \in {"error_processing", "error_file"}
\* C29: main runs the scripts that are present in the listed order, skips
\* the missing ones, stops at the first script whose return code is not 0
\* and returns False then; it returns True exactly when every script that
\* is present was run and none failed.
Position(name) == CHOOSE i \in DOMAIN scripts : scripts[i] = name
Failed(r) == r.rc # 0

C29_StopAtFirstFailure ==
    pc \in {"pm_loop", "pm_done"} =>
        /\ \A i \in DOMAIN ran :
              /\ ran[i].script \in exists
              /\ i < Len(ran) => ~Failed(ran[i])
              /\ \A j \in DOMAIN ran : i < j => Position(ran[i].script) < Position(ran[j].script)
        /\ \A k \in DOMAIN scripts :
              LET bound == IF ran # <<>> /\ Failed(Last(ran))
                           THEN Position(Last(ran).script) + 1
                           ELSE script_idx
              IN /\ (k < bound /\ scripts[k] \in exists) =>
                       \E i \in DOMAIN ran : ran[i].script = scripts[k]
                 /\ (k < bound /\ scripts[k] \notin exists) =>
                       \E i \in DOMAIN log :
                          log[i].kind = "not_found" /\ log[i].what = scripts[k]
                 /\ k >= bound =>
                       /\ \A i \in DOMAIN ran : ran[i].script # scripts[k]
                       /\ \A i \in DOMAIN log : log[i].what # scripts[k]
        /\ pc = "pm_loop" => (ret = "none" /\ \A i \in DOMAIN ran : ~Failed(ran[i]))
        /\ pc = "pm_done" =>
              /\ ret \in {"True", "False"}
              /\ ret = "False" <=> (ran # <<>> /\ Failed(Last(ran)))
              /\ ret = "True" <=> \A i \in DOMAIN ran : ~Failed(ran[i])
              /\ ret = "True" => {ran[i].script : i \in DOMAIN ran} = exists

\* main returned False at the second script it ran, after it skipped a
\* missing script, and a later script that is present was not run.
C29_Witness ==
    /\ pc = "pm_done"
    /\ ret = "False"
    /\ Len(ran) = 2
    /\ \E i \in DOMAIN log : log[i].kind = "not_found"
    /\ \E k \in DOMAIN scripts :
          /\ scripts[k] \in exists
          /\ k > Position(Last(ran).script)
====
